---------------------------- MODULE Spec2Model ----------------------------
(***************************************************************************)
(* omarchy-image-mover: the colour classifier (detector.py, themes.py),    *)
(* the correction learner (learning.py), the custom themes of the          *)
(* configuration and its import of learned patterns (config.py), the      *)
(* loop that processes a batch of images (main.py), the mover of images    *)
(* (mover.py), the history of its operations (history.py) and the          *)
(* selection of the browser (ui/browser.py).                               *)
(*                                                                         *)
(* A colour is a triple <<r, g, b>> of channel values.  A distance is kept *)
(* as the exact integer 100^2 * d^2 of the code's float d, so that         *)
(* d1 < d2 in the code is the integer comparison here (the square root is  *)
(* strictly increasing; the weights 0.3, 0.59, 0.11 are 30, 59, 11         *)
(* hundredths).                                                            *)
(***************************************************************************)
EXTENDS Integers, Sequences, FiniteSets, TLC

VARIABLES
    corrections,    \* ThemeLearner.corrections: the in-memory sequence
    learning_file,  \* learned_patterns.json: Missing, Malformed or its content
    clock,          \* what datetime.now() returns
    default_custom_themes,  \* the dict object DEFAULT_CONFIG["custom_themes"]
    config_custom_themes,   \* Config.config["custom_themes"]: that object or its own
    config_file,    \* mover.json: Missing or its content
    export_file,    \* the file export_data writes: Missing, Malformed or its content
    mode,           \* ImageProcessor.mode: "auto" or "manual"
    images,         \* process_images: the batch, in the order given
    idx,            \* process_images: how many images of the batch are done
    results,        \* process_images: the counts of the summary
    output,         \* process_images: what was decided for each image done
    files,          \* the files there are: the content at each path
    dirs,           \* the directories there are
    entries,        \* History.entries: the in-memory sequence
    history_file,   \* mover_history.json: Missing or its content
    max_entries,    \* History.max_entries
    dry_run,        \* ImageMover.dry_run
    selected_images,  \* ImageBrowser.selected_images
    last            \* the operation performed last, its inputs and its results

learner_vars == <<corrections, learning_file>>
config_vars == <<default_custom_themes, config_custom_themes, config_file>>
batch_vars == <<mode, images, idx, results, output>>
fs_vars == <<files, dirs>>
history_vars == <<entries, history_file, max_entries>>
mover_vars == <<fs_vars, history_vars, dry_run>>
browser_vars == <<selected_images>>
vars == <<corrections, learning_file, clock, default_custom_themes,
          config_custom_themes, config_file, export_file, mode, images,
          idx, results, output, files, dirs, entries, history_file,
          max_entries, dry_run, selected_images, last>>

-----------------------------------------------------------------------------
(* themes.py                                                               *)

\* THEMES, in the dict's insertion order (the order .items() iterates in).
THEMES ==
    << [name |-> "catppuccin",       color |-> <<30, 30, 46>>],
       [name |-> "catppuccin-latte", color |-> <<239, 241, 245>>],
       [name |-> "everforest",       color |-> <<43, 51, 57>>],
       [name |-> "gruvbox",          color |-> <<40, 40, 40>>],
       [name |-> "kanagawa",         color |-> <<31, 31, 40>>],
       [name |-> "matte-black",      color |-> <<40, 40, 43>>],
       [name |-> "nord",             color |-> <<46, 52, 64>>],
       [name |-> "osaka-jade",       color |-> <<0, 168, 107>>],
       [name |-> "ristretto",        color |-> <<31, 14, 4>>],
       [name |-> "rose-pine",        color |-> <<25, 23, 36>>],
       [name |-> "tokyo-night",      color |-> <<26, 27, 38>>] >>

ThemeNames == {THEMES[i].name : i \in 1..Len(THEMES)}

\* The position of a theme in the iteration order of THEMES.
ThemeIndex(theme_name) ==
    CHOOSE i \in 1..Len(THEMES) : THEMES[i].name = theme_name

\* THEMES[name]
get_theme_color(theme_name) == THEMES[ThemeIndex(theme_name)].color

-----------------------------------------------------------------------------
(* detector.py                                                             *)

r_weight == 30
g_weight == 59
b_weight == 11

\* float('inf'): above every distance two colours can have.
Inf == 2147483647

\* The two confidence thresholds of detect_theme.
HIGH_BELOW == 20
MEDIUM_BELOW == 35

\* A float distance limit in the integer unit distances are kept in.
Limit(units) == (units * 100) * (units * 100)

\* (the blue term not squared)
RgbDistanceBlueUnsquared(c1, c2) ==
    LET r_diff == (c1[1] - c2[1]) * r_weight
        g_diff == (c1[2] - c2[2]) * g_weight
        b_diff == (c1[3] - c2[3]) * b_weight
    IN  r_diff * r_diff + g_diff * g_diff + b_diff

\* rgb_distance(c1, c2), as 100^2 times its square.
rgb_distance(c1, c2) ==
    LET r_diff == (c1[1] - c2[1]) * r_weight
        g_diff == (c1[2] - c2[2]) * g_weight
        b_diff == (c1[3] - c2[3]) * b_weight
    IN  r_diff * r_diff + g_diff * g_diff + b_diff * b_diff

\* (the two thresholds exchanged)
ConfidenceSwapped(min_dist) ==
    IF min_dist < Limit(MEDIUM_BELOW) THEN "high"
    ELSE IF min_dist < Limit(HIGH_BELOW) THEN "medium"
    ELSE "low"

\* The confidence level detect_theme derives from the minimum distance.
confidence(min_dist) ==
    IF min_dist < Limit(HIGH_BELOW) THEN "high"
    ELSE IF min_dist < Limit(MEDIUM_BELOW) THEN "medium"
    ELSE "low"

\* (the loop keeping the last of the nearest themes)
RECURSIVE DetectLoopLastMin(_, _, _, _)
DetectLoopLastMin(avg_color, i, min_dist, best_theme) ==
    IF i > Len(THEMES) THEN <<best_theme, min_dist>>
    ELSE LET dist == rgb_distance(avg_color, THEMES[i].color)
         IN  IF dist <= min_dist
             THEN DetectLoopLastMin(avg_color, i + 1, dist, THEMES[i].name)
             ELSE DetectLoopLastMin(avg_color, i + 1, min_dist, best_theme)

\* The loop of detect_theme over THEMES.items(), from position i on.
RECURSIVE DetectLoop(_, _, _, _)
DetectLoop(avg_color, i, min_dist, best_theme) ==
    IF i > Len(THEMES) THEN <<best_theme, min_dist>>
    ELSE LET dist == rgb_distance(avg_color, THEMES[i].color)
         IN  IF dist < min_dist
             THEN DetectLoop(avg_color, i + 1, dist, THEMES[i].name)
             ELSE DetectLoop(avg_color, i + 1, min_dist, best_theme)

\* detect_theme(avg_color): (best_theme, min_dist, confidence)
detect_theme(avg_color) ==
    LET best == DetectLoop(avg_color, 1, Inf, "None")
    IN  [theme      |-> best[1],
         distance   |-> best[2],
         confidence |-> confidence(best[2])]

\* An image file: one PIL cannot decode, or the pixels it decodes to (as
\* img.convert('RGB').getdata() lists them; an image of at most 200 by 200
\* pixels, which img.thumbnail((200, 200)) leaves as it is).
Unreadable == [unreadable |-> TRUE]
Pixels(pixels) == [pixels |-> pixels]

\* What the colour functions and analyze_image return for None.
NoColor == <<>>
NoAnalysis == [absent |-> TRUE]

\* The quantization step of get_dominant_color.
QUANTUM == 16

\* (rounding to the nearest multiple of the step)
QuantizeNearest(channel) == ((channel + 8) \div QUANTUM) * QUANTUM

\* (r // 16) * 16
Quantize(channel) == (channel \div QUANTUM) * QUANTUM

\* The list quantized of get_dominant_color.
Quantized(pixels) ==
    [i \in 1..Len(pixels) |->
        <<Quantize(pixels[i][1]), Quantize(pixels[i][2]), Quantize(pixels[i][3])>>]

\* Counter(quantized)[color]
Count(quantized, color) ==
    Cardinality({i \in 1..Len(quantized) : quantized[i] = color})

\* The position at which a colour is first seen (the order of a Counter).
FirstSeen(quantized, color) ==
    CHOOSE i \in 1..Len(quantized) :
        /\ quantized[i] = color
        /\ \A j \in 1..(i - 1) : quantized[j] # color

\* Counter(quantized).most_common(1)[0][0]: the most frequent colour, and of
\* several the one seen first.
MostCommon(quantized) ==
    quantized[CHOOSE i \in 1..Len(quantized) :
                  /\ i = FirstSeen(quantized, quantized[i])
                  /\ \A j \in 1..Len(quantized) :
                         \/ Count(quantized, quantized[j]) < Count(quantized, quantized[i])
                         \/ /\ Count(quantized, quantized[j]) = Count(quantized, quantized[i])
                            /\ i <= FirstSeen(quantized, quantized[j])]

\* get_dominant_color(path): opens tells whether the file could be opened
\* and read this time; every exception (also the IndexError of an image
\* without pixels) gives None.
get_dominant_color(img, opens) ==
    IF ~opens \/ img = Unreadable THEN NoColor
    ELSE IF img.pixels = <<>> THEN NoColor
    ELSE MostCommon(Quantized(img.pixels))

\* sum(channel values) over the pixels from position i on.
RECURSIVE SumChannel(_, _, _)
SumChannel(pixels, k, i) ==
    IF i > Len(pixels) THEN 0 ELSE pixels[i][k] + SumChannel(pixels, k, i + 1)

\* get_avg_color(path)
get_avg_color(img, opens) ==
    IF ~opens \/ img = Unreadable THEN NoColor
    ELSE IF img.pixels = <<>> THEN NoColor
    ELSE <<SumChannel(img.pixels, 1, 1) \div Len(img.pixels),
           SumChannel(img.pixels, 2, 1) \div Len(img.pixels),
           SumChannel(img.pixels, 3, 1) \div Len(img.pixels)>>

\* The dict analyze_image returns for a colour.
Analysis(color) ==
    LET detected == detect_theme(color)
    IN  [avg_color       |-> color,
         suggested_theme |-> detected.theme,
         distance        |-> detected.distance,
         confidence      |-> detected.confidence]

\* (analyze_image taking a colour without a lit channel for no colour)
AnalyzeBlackFails(img, opens_first, opens_second) ==
    LET black == <<0, 0, 0>>
        dominant_color == get_dominant_color(img, opens_first)
    IN  IF dominant_color = NoColor \/ dominant_color = black
        THEN LET avg_color == get_avg_color(img, opens_second)
             IN  IF avg_color = NoColor \/ avg_color = black THEN NoAnalysis
                 ELSE Analysis(avg_color)
        ELSE Analysis(dominant_color)

\* analyze_image(path): the file is opened once by get_dominant_color and,
\* when that gives None, once more by get_avg_color.
analyze_image(img, opens_first, opens_second) ==
    LET dominant_color == get_dominant_color(img, opens_first)
    IN  IF dominant_color = NoColor
        THEN LET avg_color == get_avg_color(img, opens_second)
             IN  IF avg_color = NoColor THEN NoAnalysis ELSE Analysis(avg_color)
        ELSE Analysis(dominant_color)

-----------------------------------------------------------------------------
(* The colours detection is exercised on.                                  *)

GridChannel == {0, 31, 46, 112, 168, 255}

\* Colours at which two themes are at the same, minimal, distance.
TieColors ==
    { <<6, 90, 25>>, <<14, 49, 168>>, <<29, 78, 1>>,
      <<66, 44, 38>>, <<89, 42, 24>>, <<112, 40, 10>> }

\* The colours whose minimum distance is nearest to each threshold, on
\* either side of it (no colour is at distance 20 or 35 exactly).
ThresholdColors ==
    { <<59, 155, 59>>, <<7, 18, 209>>, <<12, 109, 102>>, <<113, 154, 82>> }

DetectColors ==
    (GridChannel \X GridChannel \X GridChannel)
        \cup {THEMES[i].color : i \in 1..Len(THEMES)}
        \cup TieColors \cup ThresholdColors

-----------------------------------------------------------------------------
(* learning.py: values                                                     *)

None == "None"
\* A file that does not exist, and one whose content json.load rejects or is
\* not an object (reading it raises inside the same try block).
Missing == [missing |-> TRUE]
Malformed == [malformed |-> TRUE]

\* The similarity radius of get_learned_theme.
SIMILAR_BELOW == 20

\* A Python sequence of three channels: the tuple a caller passes, or the
\* list json.load returns.
PyTuple(rgb) == [kind |-> "tuple", rgb |-> rgb]
PyList(rgb) == [kind |-> "list", rgb |-> rgb]

\* tuple(v)
tuple(v) == PyTuple(v.rgb)

\* The dict record_correction builds.
Correction(avg_color, suggested_theme, actual_theme, timestamp) ==
    [avg_color       |-> avg_color,
     suggested_theme |-> suggested_theme,
     actual_theme    |-> actual_theme,
     timestamp       |-> timestamp]

\* A correction as it is after json.dump and json.load: a tuple is written
\* as an array and an array is read as a list; strings are kept.
Json(corr) ==
    IF "avg_color" \in DOMAIN corr
    THEN [corr EXCEPT !.avg_color = PyList(corr.avg_color.rgb)]
    ELSE corr

JsonAll(corrs) == [i \in 1..Len(corrs) |-> Json(corrs[i])]

\* An entry of a file has the three fields the learner reads.
WellFormed(corr) ==
    {"avg_color", "suggested_theme", "actual_theme"} \subseteq DOMAIN corr

-----------------------------------------------------------------------------
(* learning.py: ThemeLearner                                               *)

\* (load() leaving the sequence as it is when the store cannot be read)
LoadKeepsOnFailure(file) ==
    IF file = Missing THEN <<>>
    ELSE IF file = Malformed THEN corrections
    ELSE file.corrections

\* load(): the sequence a learner holds after reading the store.
load(file) ==
    IF file = Missing THEN <<>>
    ELSE IF file = Malformed THEN <<>>
    ELSE file.corrections

\* (save() writing the sequence as it was before the append)
SaveWithoutLast(corrs, file, now, outcome) ==
    CASE outcome = "ok"      ->
             [corrections  |-> JsonAll(SubSeq(corrs, 1, Len(corrs) - 1)),
              last_updated |-> now]
      [] outcome = "denied"  -> file
      [] outcome = "partial" -> Malformed

\* save(): the store after the attempt to write corrs at time now.  The
\* write succeeds, is refused when the file is opened (the store is left as
\* it was), or fails after the file was truncated.
SaveOutcomes == {"ok", "denied", "partial"}

save(corrs, file, now, outcome) ==
    CASE outcome = "ok"      -> [corrections |-> JsonAll(corrs), last_updated |-> now]
      [] outcome = "denied"  -> file
      [] outcome = "partial" -> Malformed

\* (similar_corrections taken within the radius of the medium confidence)
RECURSIVE SimilarWithinMedium(_, _, _)
SimilarWithinMedium(corrs, avg_color, i) ==
    IF i > Len(corrs) THEN <<>>
    ELSE LET corr_color == tuple(corrs[i].avg_color)
             distance == rgb_distance(avg_color, corr_color.rgb)
         IN  IF distance < Limit(MEDIUM_BELOW)
             THEN <<[distance |-> distance, correction |-> corrs[i]]>>
                      \o SimilarWithinMedium(corrs, avg_color, i + 1)
             ELSE SimilarWithinMedium(corrs, avg_color, i + 1)

\* similar_corrections: the (distance, correction) pairs within the radius,
\* in the order of the sequence, from position i on.
RECURSIVE Similar(_, _, _)
Similar(corrs, avg_color, i) ==
    IF i > Len(corrs) THEN <<>>
    ELSE LET corr_color == tuple(corrs[i].avg_color)
             distance == rgb_distance(avg_color, corr_color.rgb)
         IN  IF distance < Limit(SIMILAR_BELOW)
             THEN <<[distance |-> distance, correction |-> corrs[i]]>>
                      \o Similar(corrs, avg_color, i + 1)
             ELSE Similar(corrs, avg_color, i + 1)

\* (the sort placing an element before those of the same key)
RECURSIVE InsertBeforeEqual(_, _)
InsertBeforeEqual(sorted, x) ==
    IF sorted = <<>> THEN <<x>>
    ELSE IF Head(sorted).distance < x.distance
         THEN <<Head(sorted)>> \o InsertBeforeEqual(Tail(sorted), x)
         ELSE <<x>> \o sorted

\* list.sort(key=lambda x: x[0]): a stable sort, by insertion after every
\* element whose key is not greater.
RECURSIVE InsertSorted(_, _)
InsertSorted(sorted, x) ==
    IF sorted = <<>> THEN <<x>>
    ELSE IF Head(sorted).distance <= x.distance
         THEN <<Head(sorted)>> \o InsertSorted(Tail(sorted), x)
         ELSE <<x>> \o sorted

\* (the pairs left in the order they were recorded in)
SortKeepsOrder(pairs) == pairs

RECURSIVE SortByDistance(_)
SortByDistance(pairs) ==
    IF pairs = <<>> THEN <<>>
    ELSE InsertSorted(SortByDistance(SubSeq(pairs, 1, Len(pairs) - 1)),
                      pairs[Len(pairs)])

\* (get_learned_theme taking the nearest of the corrections recorded for
\* the suggestion)
GetLearnedAmongMatching(corrs, avg_color, suggested_theme) ==
    LET matching ==
            SelectSeq(Similar(corrs, avg_color, 1),
                      LAMBDA p : p.correction.suggested_theme = suggested_theme)
    IN  IF matching = <<>> THEN None
        ELSE SortByDistance(matching)[1].correction.actual_theme

\* get_learned_theme(avg_color, suggested_theme)
get_learned_theme(corrs, avg_color, suggested_theme) ==
    IF corrs = <<>> THEN None
    ELSE LET similar_corrections == Similar(corrs, avg_color, 1)
         IN  IF similar_corrections = <<>> THEN None
             ELSE LET closest == SortByDistance(similar_corrections)[1].correction
                  IN  IF closest.suggested_theme = suggested_theme
                      THEN closest.actual_theme
                      ELSE None

\* The truth value Python gives a theme name or None.
Truthy(v) == v # None /\ v # ""

\* (adjust_detection with the two results exchanged)
AdjustInverted(corrs, avg_color, suggested_theme) ==
    LET learned == get_learned_theme(corrs, avg_color, suggested_theme)
    IN  IF Truthy(learned) THEN suggested_theme ELSE learned

\* adjust_detection(avg_color, suggested_theme)
adjust_detection(corrs, avg_color, suggested_theme) ==
    LET learned == get_learned_theme(corrs, avg_color, suggested_theme)
    IN  IF Truthy(learned) THEN learned ELSE suggested_theme

\* The dedup key import_data computes for a correction.
Key(corr) == <<tuple(corr.avg_color), corr.suggested_theme, corr.actual_theme>>

\* existing_keys of import_data.
ExistingKeys(corrs) == {Key(corrs[i]) : i \in 1..Len(corrs)}

\* (the merge loop replacing a correction by the imported one of its key)
RECURSIVE MergeLoopReplacing(_, _, _, _)
MergeLoopReplacing(corrs, existing_keys, imported_corrections, i) ==
    IF i > Len(imported_corrections) THEN [corrections |-> corrs, raised |-> FALSE]
    ELSE LET corr == imported_corrections[i]
         IN  IF ~WellFormed(corr) THEN [corrections |-> corrs, raised |-> TRUE]
             ELSE IF Key(corr) \notin existing_keys
                  THEN MergeLoopReplacing(Append(corrs, corr), existing_keys,
                                          imported_corrections, i + 1)
                  ELSE MergeLoopReplacing(
                           [j \in 1..Len(corrs) |->
                               IF Key(corrs[j]) = Key(corr) THEN corr ELSE corrs[j]],
                           existing_keys, imported_corrections, i + 1)

\* The merge loop of import_data from position i of the imported entries:
\* the sequence it leaves and whether it ran to the end (an entry lacking a
\* field raises, and the loop is left with what it has appended so far).
RECURSIVE MergeLoop(_, _, _, _)
MergeLoop(corrs, existing_keys, imported_corrections, i) ==
    IF i > Len(imported_corrections) THEN [corrections |-> corrs, raised |-> FALSE]
    ELSE LET corr == imported_corrections[i]
         IN  IF ~WellFormed(corr) THEN [corrections |-> corrs, raised |-> TRUE]
             ELSE IF Key(corr) \notin existing_keys
                  THEN MergeLoop(Append(corrs, corr), existing_keys,
                                 imported_corrections, i + 1)
                  ELSE MergeLoop(corrs, existing_keys, imported_corrections, i + 1)

\* (export_data writing the dedup key of every correction only)
ExportKeysOnly(corrs, file, now, outcome) ==
    CASE outcome = "ok"      ->
             [corrections |->
                  [i \in 1..Len(corrs) |->
                      [f \in DOMAIN corrs[i] \ {"timestamp"} |-> Json(corrs[i])[f]]],
              exported_at |-> now]
      [] outcome = "denied"  -> file
      [] outcome = "partial" -> Malformed

\* export_data(export_path): the file at export_path after the attempt to
\* write corrs to it at time now (the outcomes are those of save()).
export_data(corrs, file, now, outcome) ==
    CASE outcome = "ok"      -> [corrections |-> JsonAll(corrs), exported_at |-> now]
      [] outcome = "denied"  -> file
      [] outcome = "partial" -> Malformed

-----------------------------------------------------------------------------
(* config.py: the custom themes of a Config                                *)

\* A dict from theme names to colours is a function; {} is the empty one.
EmptyDict == <<>>

\* dict.update(other): the entries of other replace and extend those of d.
Update(d, other) == other @@ d

\* self.config["custom_themes"] is either the very dict of DEFAULT_CONFIG
\* (DEFAULT_CONFIG.copy() is shallow) or a dict of its own.
Shared == [shared |-> TRUE, own |-> EmptyDict]
Own(d) == [shared |-> FALSE, own |-> d]

\* self.config.get("custom_themes", {})
CustomThemes ==
    IF config_custom_themes.shared THEN default_custom_themes
    ELSE config_custom_themes.own

\* d[name] = rgb, and del d[name]
SetItem(d, name, rgb) == (name :> rgb) @@ d
DelItem(d, name) ==
    IF DOMAIN d = {name} THEN EmptyDict
    ELSE [n \in DOMAIN d \ {name} |-> d[n]]

\* THEMES as the dict it is.
ThemesDict == [n \in ThemeNames |-> get_theme_color(n)]

\* get_all_themes(): THEMES.copy() updated with the custom themes.
get_all_themes == Update(ThemesDict, CustomThemes)

\* save_config(): the config file after the attempt to write it.
save_config(custom_themes, file, ok) ==
    IF ok THEN [custom_themes |-> custom_themes] ELSE file

-----------------------------------------------------------------------------
(* Files and directories                                                   *)

\* A path is a directory and a file name.  A file name is its base name
\* followed by the counters appended to it: <<"a">> is a.png, <<"a", 1>> is
\* a_1.png and <<"a", 1, 1>> is a_1_1.png (the extension stays as it is).
Path(dir, name) == [dir |-> dir, name |-> name]

\* os.path.dirname(path) and os.path.basename(path)
dirname(path) == path.dir
basename(path) == path.name

\* The directory part of a bare file name, '', and a directory of pictures
\* given by its absolute path.
CURRENT == ""
PICTURES == "/pictures"

\* os.path.join(self.base_dir, theme, 'backgrounds'), named by its theme.
target_dir(theme) == theme

NoFiles == <<>>

\* os.path.exists(path), os.path.isfile(path)
path_exists(fs, path) == path \in DOMAIN fs

WriteFile(fs, path, content) == (path :> content) @@ fs

\* os.remove(path)
RemoveFile(fs, path) ==
    IF DOMAIN fs = {path} THEN NoFiles
    ELSE [q \in DOMAIN fs \ {path} |-> fs[q]]

\* shutil.move(src, dst), os.rename(src, dst): a file at dst is replaced.
Rename(fs, src, dst) == WriteFile(RemoveFile(fs, src), dst, fs[src])

\* shutil.copy2(src, dst)
Copy(fs, src, dst) == WriteFile(fs, dst, fs[src])

-----------------------------------------------------------------------------
(* mover.py                                                                *)

\* The loop looking for a name that is free: f'{base}_{counter}{ext}'.
RECURSIVE UniqueName(_, _, _, _)
UniqueName(fs, dir, base, counter) ==
    IF path_exists(fs, Path(dir, Append(base, counter)))
    THEN UniqueName(fs, dir, base, counter + 1)
    ELSE Append(base, counter)

\* (the name with counter 1 taken without looking whether it is free)
TargetPathOneTry(fs, dir, filename) ==
    IF path_exists(fs, Path(dir, filename))
    THEN Path(dir, Append(filename, 1))
    ELSE Path(dir, filename)

\* target_path of move_image and copy_image when it comes to the move.
target_path(fs, dir, filename) ==
    IF path_exists(fs, Path(dir, filename))
    THEN Path(dir, UniqueName(fs, dir, filename, 1))
    ELSE Path(dir, filename)

-----------------------------------------------------------------------------
(* history.py                                                              *)

\* History(max_entries=100), and "max_history": 100 of DEFAULT_CONFIG.
MAX_HISTORY == 100

\* The content of the history file: the entries as a JSON list.
HistoryFile(es) == [entries |-> es]

\* _load_history()
load_history(file) == IF file = Missing THEN <<>> ELSE file.entries

\* self.entries[-self.max_entries:]: a slice from -n, which for n = 0 is
\* the slice from 0.
LastEntries(es, n) ==
    LET start == IF n = 0 THEN 0
                 ELSE IF Len(es) - n < 0 THEN 0 ELSE Len(es) - n
    IN  SubSeq(es, start + 1, Len(es))

\* What a save of the history can come to: written; its directory could
\* not be made; the file could not be opened for writing.
HistoryOutcomes == {"ok", "no_dir", "denied"}

\* _save_history(): the entries in memory, the file and the value returned.
save_history(es, max, file, outcome) ==
    LET trimmed == IF Len(es) > max THEN LastEntries(es, max) ELSE es
    IN  CASE outcome = "ok"     ->
                 [entries |-> trimmed, file |-> HistoryFile(trimmed), ret |-> TRUE]
          [] outcome = "no_dir" -> [entries |-> es, file |-> file, ret |-> FALSE]
          [] outcome = "denied" -> [entries |-> trimmed, file |-> file, ret |-> FALSE]

\* The entry add_entry builds.
Entry(source, destination, theme, operation, now) ==
    [timestamp |-> now, source |-> source, destination |-> destination,
     theme |-> theme, operation |-> operation, filename |-> basename(source)]

\* add_entry(source, destination, theme, operation)
add_entry(es, max, file, source, destination, theme, operation, now, outcome) ==
    save_history(Append(es, Entry(source, destination, theme, operation, now)),
                 max, file, outcome)

-----------------------------------------------------------------------------
(* ui/browser.py                                                           *)

\* What the viewing of one image can come to: viewed and left; renamed;
\* an exception; Ctrl+C while the image is being shown.
EditOutcomes == {"done", "rename", "error", "interrupt"}

\* The name an image is renamed to in the viewer.
RENAMED == <<"renamed">>

\* The loop of _edit_images from image i on (i counts from 1, as
\* enumerate(self.selected_images, 1) does): the paths it leaves and the
\* files.  selected[i:] of the code are the images after image i.
RECURSIVE EditLoop(_, _, _, _, _)
EditLoop(selected, fs, outcomes, i, updated_paths) ==
    IF i > Len(selected) THEN [selected |-> updated_paths, files |-> fs]
    ELSE LET img_path == selected[i]
             new_path == Path(dirname(img_path), RENAMED)
         IN  IF outcomes[i] = "interrupt"
             THEN [selected |-> updated_paths \o SubSeq(selected, i + 1, Len(selected)),
                   files |-> fs]
             ELSE IF ~path_exists(fs, img_path) \/ outcomes[i] \in {"done", "error"}
             THEN EditLoop(selected, fs, outcomes, i + 1,
                           Append(updated_paths, img_path))
             ELSE IF path_exists(fs, new_path)
             THEN EditLoop(selected, fs, outcomes, i + 1,
                           Append(updated_paths, img_path))
             ELSE EditLoop(selected, Rename(fs, img_path, new_path), outcomes, i + 1,
                           Append(updated_paths, new_path))

-----------------------------------------------------------------------------
(* Bounds and the inputs the operations are exercised on                   *)

\* The longest correction sequence, in memory or in the store.
MaxCorrections == 2
\* The most entries an imported file holds.
MaxImport == 2
\* The last instant of the clock.
MaxClock == 1

\* Four colours on the green axis.  Weighted distances: A-B 0.59, B-C 9.44,
\* A-C and C-D 10.03 (C is as far from A as from D), B-D 19.47 (within the
\* radius), A-D 20.06 (outside it).
ColorA == <<10, 10, 10>>
ColorB == <<10, 11, 10>>
ColorC == <<10, 27, 10>>
ColorD == <<10, 44, 10>>

\* The lookups: corrections at A and D, recorded for two of the three themes,
\* queried from all four colours and for all three themes.
QueryColors == {ColorA, ColorB, ColorC, ColorD}
StoredColors == {ColorA, ColorD}
LearnThemes == {"nord", "gruvbox", "tokyo-night"}
SuggestedThemes == {"nord", "gruvbox"}

\* The corrections recorded next to imports.
RecordColors == {ColorA}
RecordThemes == {"nord", "gruvbox"}

\* The entries of the files imported: one with the key of a correction that
\* is also recorded, a confirmation (with a key that is never recorded), and
\* one lacking fields.
ImportEntries ==
    { Correction(PyList(ColorA), "nord", "gruvbox", 0),
      Correction(PyList(ColorA), "nord", "nord", 0),
      [avg_color |-> PyList(ColorA)] }

\* The learned patterns of the files Config.import_themes is given.
PatternEntries ==
    { Correction(PyList(ColorA), "nord", "gruvbox", 0),
      Correction(PyList(ColorA), "nord", "nord", 0) }

\* The custom themes added: a new name and the name of a built-in theme,
\* with a colour far from every built-in theme and one near several.
CustomNames == {"sunset", "nord"}
CustomColors == {<<200, 100, 50>>, ColorA}
\* The colours classified next to them.
PaletteColors == CustomColors \cup {<<46, 52, 64>>, <<40, 40, 40>>}

\* The custom themes given to set and found in the files imported: none, or
\* one.
CustomDicts == {EmptyDict, "sunset" :> <<200, 100, 50>>}
\* The files Config.import_themes is given that hold custom themes only.
CustomThemeFiles ==
    {Malformed} \cup
    {[custom_themes |-> d, learned_patterns |-> <<>>] : d \in CustomDicts}

\* The most files there are.
MaxFiles == 3
\* The longest history entries are added to.
MaxEntries == 3

\* The most images selected in the browser.
MaxSelected == 2
\* Where images are saved: under a bare file name in the working
\* directory, and in the directory of pictures under two names.
SourcePaths ==
    {Path(CURRENT, <<"a">>), Path(PICTURES, <<"a">>), Path(PICTURES, <<"a", 1>>)}
\* What images hold.
Contents == {"x", "y"}
\* The themes images are moved to.
MoveThemes == {"nord"}
\* The history sizes configured.
HistorySizes == {0, 1, 2, MAX_HISTORY}

\* The most pixels an image analysed has.
MaxPixels == 3
\* The pixels of the images analysed: black, a colour that quantizes to
\* black, and a colour that makes averages with them that are not whole.
PixelColors == {<<0, 0, 0>>, <<10, 10, 10>>, <<255, 200, 17>>}

SeqsUpTo(S, n) == UNION {[1..k -> S] : k \in 0..n}

\* The most images a batch has.
MaxBatch == 2
\* The image files of a batch: one that cannot be analysed and one that can.
BatchImages == {Unreadable, Pixels(<<<<47, 52, 64>>>>)}
\* The batches processed.
Batches == SeqsUpTo(BatchImages, MaxBatch)

\* The image files analysed.
ImageFiles ==
    {Unreadable} \cup {Pixels(pixels) : pixels \in SeqsUpTo(PixelColors, MaxPixels)}

\* The image files whose dominant colour is taken: their pixels are those
\* above and one more, with a channel in each of the bins 16, 32 and 240.
DominantFiles ==
    {Unreadable} \cup
    {Pixels(pixels) :
        pixels \in SeqsUpTo(PixelColors \cup {<<31, 32, 255>>}, MaxPixels)}

\* The files import_data is given: unparsable, or an object with corrections.
ImportFiles ==
    {Malformed} \cup {[corrections |-> f] : f \in SeqsUpTo(ImportEntries, MaxImport)}

\* The files of at most one entry.
SingleEntryFiles ==
    {Malformed, [corrections |-> <<>>]}
        \cup {[corrections |-> <<e>>] : e \in ImportEntries}

\* The files Config.import_themes is given.
ThemeFiles ==
    {Malformed} \cup
    {[custom_themes |-> EmptyDict, learned_patterns |-> f] :
        f \in SeqsUpTo(PatternEntries, MaxImport)}

\* The colours the distance is exercised on: the corners of the colour cube
\* and colours of the palette.
DistanceColors ==
    ({0, 255} \X {0, 255} \X {0, 255})
        \cup {<<46, 52, 64>>, <<40, 40, 40>>, <<26, 27, 38>>, <<59, 155, 59>>}

-----------------------------------------------------------------------------
(* State                                                                   *)

NoOp == [op |-> "none"]

\* results before the first image: {'success': 0, 'failed': 0, 'skipped': 0}
NoResults == [success |-> 0, failed |-> 0, skipped |-> 0]

\* A learner constructed with no store, a Config constructed with no file,
\* nothing exported and no batch given.
Init ==
    /\ corrections = <<>>
    /\ learning_file = Missing
    /\ clock = 0
    /\ default_custom_themes = EmptyDict
    /\ config_custom_themes = Shared
    /\ config_file = Missing
    /\ export_file = Missing
    /\ mode = "auto"
    /\ images = <<>>
    /\ idx = 0
    /\ results = NoResults
    /\ output = <<>>
    /\ files = NoFiles
    /\ dirs = {PICTURES}
    /\ entries = <<>>
    /\ history_file = Missing
    /\ max_entries = MAX_HISTORY
    /\ dry_run = FALSE
    /\ selected_images = <<>>
    /\ last = NoOp

\* Time passes.
Tick ==
    /\ clock < MaxClock
    /\ clock' = clock + 1
    /\ last' = [op |-> "tick"]
    /\ UNCHANGED <<learner_vars, config_vars, export_file, batch_vars, mover_vars, browser_vars>>

\* detect_theme applied to a colour.
DetectTheme(c) ==
    /\ last' = [op |-> "detect_theme", color |-> c, result |-> detect_theme(c)]
    /\ UNCHANGED <<learner_vars, clock, config_vars, export_file, batch_vars, mover_vars, browser_vars>>

\* rgb_distance applied to two colours.
RgbDistance(c1, c2) ==
    /\ last' = [op |-> "rgb_distance", c1 |-> c1, c2 |-> c2,
                result |-> rgb_distance(c1, c2)]
    /\ UNCHANGED <<learner_vars, clock, config_vars, export_file, batch_vars, mover_vars, browser_vars>>

\* (record_correction without its early return)
RecordCorrectionAlways(avg_color, suggested_theme, actual_theme) ==
    /\ Len(corrections) < MaxCorrections
    /\ \E outcome \in SaveOutcomes :
           LET correction == Correction(PyTuple(avg_color), suggested_theme,
                                        actual_theme, clock)
               appended == Append(corrections, correction)
           IN  /\ corrections' = appended
               /\ learning_file' = save(appended, learning_file, clock, outcome)
               /\ last' = [op |-> "record_correction", color |-> avg_color,
                           suggested |-> suggested_theme,
                           actual |-> actual_theme, saved |-> outcome]
    /\ UNCHANGED <<clock, config_vars, export_file, batch_vars, mover_vars, browser_vars>>

\* (record_correction keeping the correction only when it was written)
RecordCorrectionIfSaved(avg_color, suggested_theme, actual_theme) ==
    IF suggested_theme = actual_theme
    THEN /\ last' = [op |-> "record_correction", color |-> avg_color,
                     suggested |-> suggested_theme, actual |-> actual_theme,
                     saved |-> "no"]
         /\ UNCHANGED <<learner_vars, clock, config_vars, export_file, batch_vars, mover_vars, browser_vars>>
    ELSE /\ Len(corrections) < MaxCorrections
         /\ \E outcome \in SaveOutcomes :
                LET correction == Correction(PyTuple(avg_color), suggested_theme,
                                             actual_theme, clock)
                    appended == Append(corrections, correction)
                IN  /\ corrections' = IF outcome = "ok" THEN appended ELSE corrections
                    /\ learning_file' = save(appended, learning_file, clock, outcome)
                    /\ last' = [op |-> "record_correction", color |-> avg_color,
                                suggested |-> suggested_theme,
                                actual |-> actual_theme, saved |-> outcome]
         /\ UNCHANGED <<clock, config_vars, export_file, batch_vars, mover_vars, browser_vars>>

\* ThemeLearner.record_correction(avg_color, suggested_theme, actual_theme)
RecordCorrection(avg_color, suggested_theme, actual_theme) ==
    IF suggested_theme = actual_theme
    THEN /\ last' = [op |-> "record_correction", color |-> avg_color,
                     suggested |-> suggested_theme, actual |-> actual_theme,
                     saved |-> "no"]
         /\ UNCHANGED <<learner_vars, clock, config_vars, export_file, batch_vars, mover_vars, browser_vars>>
    ELSE /\ Len(corrections) < MaxCorrections
         /\ \E outcome \in SaveOutcomes :
                LET correction == Correction(PyTuple(avg_color), suggested_theme,
                                             actual_theme, clock)
                    appended == Append(corrections, correction)
                IN  /\ corrections' = appended
                    /\ learning_file' = save(appended, learning_file, clock, outcome)
                    /\ last' = [op |-> "record_correction", color |-> avg_color,
                                suggested |-> suggested_theme,
                                actual |-> actual_theme, saved |-> outcome]
         /\ UNCHANGED <<clock, config_vars, export_file, batch_vars, mover_vars, browser_vars>>

\* ThemeLearner.adjust_detection(avg_color, suggested_theme)
AdjustDetection(avg_color, suggested_theme) ==
    /\ last' = [op |-> "adjust_detection", color |-> avg_color,
                suggested |-> suggested_theme,
                learned |-> get_learned_theme(corrections, avg_color, suggested_theme),
                result |-> adjust_detection(corrections, avg_color, suggested_theme)]
    /\ UNCHANGED <<learner_vars, clock, config_vars, export_file, batch_vars, mover_vars, browser_vars>>

\* ThemeLearner.load(), and the construction of a learner on the store.
Load ==
    /\ corrections' = load(learning_file)
    /\ last' = [op |-> "load"]
    /\ UNCHANGED <<learning_file, clock, config_vars, export_file, batch_vars, mover_vars, browser_vars>>

\* ThemeLearner.clear()
Clear ==
    /\ corrections' = <<>>
    /\ learning_file' = Missing
    /\ last' = [op |-> "clear"]
    /\ UNCHANGED <<clock, config_vars, export_file, batch_vars, mover_vars, browser_vars>>

\* ThemeLearner.import_data(import_path, merge), data the content of the file.
ImportData(data, merge) ==
    LET failed == /\ last' = [op |-> "import_data", merge |-> merge,
                              ret |-> FALSE, saved |-> "no"]
                  /\ UNCHANGED learning_file
        imported_corrections ==
            IF "corrections" \in DOMAIN data THEN data.corrections ELSE <<>>
        stored(corrs) ==
            /\ Len(corrs) <= MaxCorrections
            /\ corrections' = corrs
            /\ \E outcome \in SaveOutcomes :
                   /\ learning_file' = save(corrs, learning_file, clock, outcome)
                   /\ last' = [op |-> "import_data", merge |-> merge,
                               ret |-> TRUE, saved |-> outcome]
    IN  /\ UNCHANGED <<clock, config_vars, export_file, batch_vars, mover_vars, browser_vars>>
        /\ IF data = Missing \/ data = Malformed
           THEN failed /\ UNCHANGED corrections
           ELSE IF merge
           THEN IF \E i \in 1..Len(corrections) : ~WellFormed(corrections[i])
                THEN failed /\ UNCHANGED corrections
                ELSE LET merged == MergeLoop(corrections, ExistingKeys(corrections),
                                             imported_corrections, 1)
                     IN  IF merged.raised
                         THEN /\ Len(merged.corrections) <= MaxCorrections
                              /\ corrections' = merged.corrections
                              /\ failed
                         ELSE stored(merged.corrections)
           ELSE stored(imported_corrections)

\* ThemeLearner.export_data(export_path)
ExportData ==
    /\ \E outcome \in SaveOutcomes :
           /\ export_file' = export_data(corrections, export_file, clock, outcome)
           /\ last' = [op |-> "export_data", ret |-> (outcome = "ok")]
    /\ UNCHANGED <<learner_vars, clock, config_vars, batch_vars, mover_vars, browser_vars>>

\* ThemeLearner.import_data(export_path, merge) of the file last exported.
ImportExported == \E merge \in BOOLEAN : ImportData(export_file, merge)

\* analyze_image(path) of an image file.
AnalyzeImage(img, opens_first, opens_second) ==
    /\ last' = [op |-> "analyze_image", image |-> img,
                opens_first |-> opens_first, opens_second |-> opens_second,
                result |-> analyze_image(img, opens_first, opens_second)]
    /\ UNCHANGED <<learner_vars, clock, config_vars, export_file, batch_vars, mover_vars, browser_vars>>

\* get_dominant_color(path) of an image file.
GetDominantColor(img, opens) ==
    /\ last' = [op |-> "get_dominant_color", image |-> img, opens |-> opens,
                result |-> get_dominant_color(img, opens)]
    /\ UNCHANGED <<learner_vars, clock, config_vars, export_file, batch_vars, mover_vars, browser_vars>>

\* ImageProcessor(mode).process_images(images), up to its loop.
ProcessImages(batch, processor_mode) ==
    /\ idx = Len(images)
    /\ mode' = processor_mode
    /\ images' = batch
    /\ idx' = 0
    /\ results' = NoResults
    /\ output' = <<>>
    /\ last' = [op |-> "process_images"]
    /\ UNCHANGED <<learner_vars, clock, config_vars, export_file, mover_vars, browser_vars>>

\* _manual_theme_selection: what it returns for what select_with_fzf gives
\* (a theme of the list, '' when nothing was selected, or Ctrl+C).
manual_theme_selection(selected) ==
    IF selected = "interrupt" THEN None
    ELSE IF selected # "" /\ selected \in ThemeNames THEN selected
    ELSE None

\* _select_theme_for_image: the theme selected for an image, with what was
\* presented for confirmation and whether the manual selection was opened.
\* answer is what confirm() gives: "yes", "no" or "interrupt" (Ctrl+C).
select_theme_for_image(processor_mode, analysis, answer, selected) ==
    IF processor_mode = "manual"
    THEN [presented |-> None, manual |-> TRUE,
          theme |-> manual_theme_selection(selected)]
    ELSE IF analysis = NoAnalysis
    THEN [presented |-> None, manual |-> TRUE,
          theme |-> manual_theme_selection(selected)]
    ELSE LET theme == analysis.suggested_theme
         IN  CASE answer = "yes" ->
                      [presented |-> theme, manual |-> FALSE, theme |-> theme]
               [] answer = "no" ->
                      [presented |-> theme, manual |-> TRUE,
                       theme |-> manual_theme_selection(selected)]
               [] answer = "interrupt" ->
                      [presented |-> theme, manual |-> FALSE, theme |-> None]

\* (the loop of process_images left at the first image that is skipped)
ProcessImageStopsOnSkip ==
    /\ idx < Len(images)
    /\ \E opens_first \in BOOLEAN, opens_second \in BOOLEAN,
          answer \in {"yes", "no", "interrupt"},
          selected \in {"gruvbox", "", "interrupt"}, success \in BOOLEAN :
           LET img_path == images[idx + 1]
               analysis == IF mode = "manual" THEN NoAnalysis
                           ELSE analyze_image(img_path, opens_first, opens_second)
               selection == select_theme_for_image(mode, analysis, answer, selected)
               theme == selection.theme
               outcome == IF theme = None THEN "skipped"
                          ELSE IF success THEN "success" ELSE "failed"
           IN  /\ results' = [results EXCEPT ![outcome] = @ + 1]
               /\ output' = Append(output, [image |-> img_path, theme |-> theme,
                                            outcome |-> outcome])
               /\ idx' = IF outcome = "skipped" THEN Len(images) ELSE idx + 1
               /\ last' = [op |-> "process_image", analysis |-> analysis,
                           presented |-> selection.presented,
                           manual |-> selection.manual,
                           theme |-> theme, outcome |-> outcome]
    /\ UNCHANGED <<learner_vars, clock, config_vars, export_file, mode, images, mover_vars, browser_vars>>

\* One pass of the loop of process_images: the theme is selected for the
\* next image and the image is moved or copied to it.  success is what
\* move_image or copy_image returns.
ProcessImage ==
    /\ idx < Len(images)
    /\ \E opens_first \in BOOLEAN, opens_second \in BOOLEAN,
          answer \in {"yes", "no", "interrupt"},
          selected \in {"gruvbox", "", "interrupt"}, success \in BOOLEAN :
           LET img_path == images[idx + 1]
               analysis == IF mode = "manual" THEN NoAnalysis
                           ELSE analyze_image(img_path, opens_first, opens_second)
               selection == select_theme_for_image(mode, analysis, answer, selected)
               theme == selection.theme
               outcome == IF theme = None THEN "skipped"
                          ELSE IF success THEN "success" ELSE "failed"
           IN  /\ results' = [results EXCEPT ![outcome] = @ + 1]
               /\ output' = Append(output, [image |-> img_path, theme |-> theme,
                                            outcome |-> outcome])
               /\ idx' = idx + 1
               /\ last' = [op |-> "process_image", analysis |-> analysis,
                           presented |-> selection.presented,
                           manual |-> selection.manual,
                           theme |-> theme, outcome |-> outcome]
    /\ UNCHANGED <<learner_vars, clock, config_vars, export_file, mode, images, mover_vars, browser_vars>>

\* Config.add_custom_theme(name, rgb)
AddCustomTheme(name, rgb) ==
    LET custom_themes == SetItem(CustomThemes, name, rgb)
    IN  /\ IF config_custom_themes.shared
           THEN /\ default_custom_themes' = custom_themes
                /\ UNCHANGED config_custom_themes
           ELSE /\ config_custom_themes' = Own(custom_themes)
                /\ UNCHANGED default_custom_themes
        /\ \E ok \in BOOLEAN :
               /\ config_file' = save_config(custom_themes, config_file, ok)
               /\ last' = [op |-> "add_custom_theme", name |-> name, ret |-> ok]
        /\ UNCHANGED <<learner_vars, clock, export_file, batch_vars, mover_vars, browser_vars>>

\* Config.remove_custom_theme(name)
RemoveCustomTheme(name) ==
    IF name \in DOMAIN CustomThemes
    THEN LET custom_themes == DelItem(CustomThemes, name)
         IN  /\ IF config_custom_themes.shared
                THEN /\ default_custom_themes' = custom_themes
                     /\ UNCHANGED config_custom_themes
                ELSE /\ config_custom_themes' = Own(custom_themes)
                     /\ UNCHANGED default_custom_themes
             /\ \E ok \in BOOLEAN :
                    /\ config_file' = save_config(custom_themes, config_file, ok)
                    /\ last' = [op |-> "remove_custom_theme", name |-> name,
                                ret |-> ok]
             /\ UNCHANGED <<learner_vars, clock, export_file, batch_vars, mover_vars, browser_vars>>
    ELSE /\ last' = [op |-> "remove_custom_theme", name |-> name, ret |-> FALSE]
         /\ UNCHANGED <<learner_vars, clock, config_vars, export_file, batch_vars, mover_vars, browser_vars>>

\* Config(config_path): _load_config() on the file of the path, which is the
\* file written so far or, for another path, no file.  The values read from a
\* file are objects of their own.
NewConfig(exists) ==
    /\ config_file' = IF exists THEN config_file ELSE Missing
    /\ config_custom_themes' =
           IF exists /\ config_file # Missing
           THEN Own(config_file.custom_themes)
           ELSE Shared
    /\ last' = [op |-> "new_config", exists |-> exists]
    /\ UNCHANGED <<learner_vars, clock, default_custom_themes, export_file,
                   batch_vars,
                   mover_vars, browser_vars>>

\* Config.set(key, value); of the keys only custom_themes is kept here.
Set(key, value) ==
    /\ config_custom_themes' =
           IF key = "custom_themes" THEN Own(value) ELSE config_custom_themes
    /\ last' = [op |-> "set", key |-> key]
    /\ UNCHANGED <<learner_vars, clock, default_custom_themes, config_file,
                   export_file, batch_vars,
                   mover_vars, browser_vars>>

\* Config.reset_to_defaults(): the copy of DEFAULT_CONFIG is shallow again.
ResetToDefaults ==
    /\ config_custom_themes' = Shared
    /\ \E ok \in BOOLEAN :
           /\ config_file' = save_config(default_custom_themes, config_file, ok)
           /\ last' = [op |-> "reset_to_defaults", ret |-> ok]
    /\ UNCHANGED <<learner_vars, clock, default_custom_themes, export_file,
                   batch_vars,
                   mover_vars, browser_vars>>

\* Config.get_all_themes()
GetAllThemes ==
    /\ last' = [op |-> "get_all_themes", result |-> get_all_themes]
    /\ UNCHANGED <<learner_vars, clock, config_vars, export_file, batch_vars, mover_vars, browser_vars>>

\* Config.import_themes(import_path, merge), import_data the content of the
\* file.  The learned patterns go to a learner constructed for the purpose.
ImportThemes(import_data, merge) ==
    IF import_data = Malformed
    THEN /\ last' = [op |-> "import_themes", merge |-> merge, ret |-> FALSE,
                     saved |-> "no"]
         /\ UNCHANGED <<learner_vars, clock, config_vars, export_file, batch_vars, mover_vars, browser_vars>>
    ELSE LET custom_themes == import_data.custom_themes
             learned_patterns == import_data.learned_patterns
             existing_themes == Update(CustomThemes, custom_themes)
             extended == load(learning_file) \o learned_patterns
         IN  /\ IF merge
                THEN IF config_custom_themes.shared
                     THEN /\ default_custom_themes' = existing_themes
                          /\ UNCHANGED config_custom_themes
                     ELSE /\ config_custom_themes' = Own(existing_themes)
                          /\ UNCHANGED default_custom_themes
                ELSE /\ config_custom_themes' = Own(custom_themes)
                     /\ UNCHANGED default_custom_themes
             /\ \E ok \in BOOLEAN :
                    config_file' =
                        save_config(IF merge THEN existing_themes ELSE custom_themes,
                                    config_file, ok)
             /\ IF learned_patterns # <<>>
                THEN /\ Len(extended) <= MaxCorrections
                     /\ \E outcome \in SaveOutcomes :
                            /\ learning_file' =
                                   save(extended, learning_file, clock, outcome)
                            /\ last' = [op |-> "import_themes", merge |-> merge,
                                        ret |-> TRUE, saved |-> outcome]
                ELSE /\ UNCHANGED learning_file
                     /\ last' = [op |-> "import_themes", merge |-> merge,
                                 ret |-> TRUE, saved |-> "no"]
             /\ UNCHANGED <<corrections, clock, export_file, batch_vars, mover_vars, browser_vars>>

\* An image saved at a path by the user of the machine.
SaveImage(path, content) ==
    /\ ~path_exists(files, path)
    /\ Cardinality(DOMAIN files) < MaxFiles
    /\ files' = WriteFile(files, path, content)
    /\ last' = [op |-> "save_image", path |-> path]
    /\ UNCHANGED <<learner_vars, clock, config_vars, export_file, batch_vars,
                   dirs, history_vars, dry_run, browser_vars>>

\* History(history_file, max_entries)
NewHistory(max) ==
    /\ max_entries' = max
    /\ entries' = load_history(history_file)
    /\ last' = [op |-> "new_history", max_entries |-> max]
    /\ UNCHANGED <<learner_vars, clock, config_vars, export_file, batch_vars,
                   fs_vars, history_file, dry_run, browser_vars>>

\* ImageMover(base_dir, history, dry_run), with no rename pattern.
NewImageMover(dry) ==
    /\ dry_run' = dry
    /\ last' = [op |-> "new_image_mover", dry_run |-> dry]
    /\ UNCHANGED <<learner_vars, clock, config_vars, export_file, batch_vars,
                   fs_vars, history_vars, browser_vars>>

\* History.add_entry(source, destination, theme, operation)
AddEntry(source, destination, theme, operation) ==
    /\ Len(entries) < MaxEntries
    /\ \E outcome \in HistoryOutcomes :
           LET saved == add_entry(entries, max_entries, history_file, source,
                                  destination, theme, operation, clock, outcome)
           IN  /\ entries' = saved.entries
               /\ history_file' = saved.file
               /\ last' = [op |-> "add_entry", source |-> source,
                           destination |-> destination, ret |-> saved.ret]
    /\ UNCHANGED <<learner_vars, clock, config_vars, export_file, batch_vars,
                   fs_vars, max_entries, dry_run, browser_vars>>

\* ImageMover.move_image(img_path, theme) for operation "move" and
\* ImageMover.copy_image(img_path, theme) for operation "copy": the two
\* differ in shutil.move and shutil.copy2 and in the operation recorded.
\* The directory can be made; the transfer raises when there is no file at
\* img_path.
Transfer(img_path, theme, operation) ==
    LET target == target_path(files, target_dir(theme), basename(img_path))
        done(ret) == last' = [op |-> IF operation = "move" THEN "move_image"
                                     ELSE "copy_image",
                              source |-> img_path,
                              theme |-> theme, destination |-> target,
                              dry_run |-> dry_run, ret |-> ret]
    IN  /\ dirs' = dirs \cup {target_dir(theme)}
        /\ IF dry_run
           THEN /\ done(TRUE)
                /\ UNCHANGED <<files, history_vars>>
           ELSE IF ~path_exists(files, img_path)
           THEN /\ done(FALSE)
                /\ UNCHANGED <<files, history_vars>>
           ELSE /\ operation = "copy" => Cardinality(DOMAIN files) < MaxFiles
                /\ files' = IF operation = "move"
                            THEN Rename(files, img_path, target)
                            ELSE Copy(files, img_path, target)
                /\ \E outcome \in HistoryOutcomes :
                       LET saved == add_entry(entries, max_entries, history_file,
                                              img_path, target, theme, operation,
                                              clock, outcome)
                       IN  /\ entries' = saved.entries
                           /\ history_file' = saved.file
                /\ done(TRUE)
                /\ UNCHANGED max_entries
        /\ UNCHANGED <<learner_vars, clock, config_vars, export_file, batch_vars,
                       dry_run, browser_vars>>

MoveImage(img_path, theme) == Transfer(img_path, theme, "move")

CopyImage(img_path, theme) == Transfer(img_path, theme, "copy")

\* History.undo_last().  os.makedirs('') raises for the directory part of a
\* bare file name.
UndoLast ==
    LET failed == /\ last' = [op |-> "undo_last", ret |-> FALSE]
                  /\ UNCHANGED <<fs_vars, history_vars>>
        popped == SubSeq(entries, 1, Len(entries) - 1)
        saves == \E outcome \in HistoryOutcomes :
                     LET saved == save_history(popped, max_entries, history_file,
                                               outcome)
                     IN  /\ entries' = saved.entries
                         /\ history_file' = saved.file
                         /\ last' = [op |-> "undo_last", ret |-> TRUE]
                         /\ UNCHANGED max_entries
    IN  /\ IF entries = <<>> THEN failed
           ELSE LET last_entry == entries[Len(entries)]
                    source == last_entry.source
                    destination == last_entry.destination
                IN  IF ~path_exists(files, destination) THEN failed
                    ELSE IF last_entry.operation = "move"
                    THEN IF dirname(source) = CURRENT THEN failed
                         ELSE /\ dirs' = dirs \cup {dirname(source)}
                              /\ files' = Rename(files, destination, source)
                              /\ saves
                    ELSE /\ files' = RemoveFile(files, destination)
                         /\ UNCHANGED dirs
                         /\ saves
        /\ UNCHANGED <<learner_vars, clock, config_vars, export_file, batch_vars,
                       dry_run, browser_vars>>

\* ImageBrowser._handle_selections(selections) for the entry of one image.
HandleSelections(full_path) ==
    /\ Len(selected_images) < MaxSelected
    /\ selected_images' =
           IF path_exists(files, full_path)
              /\ \A i \in 1..Len(selected_images) : selected_images[i] # full_path
           THEN Append(selected_images, full_path)
           ELSE selected_images
    /\ last' = [op |-> "handle_selections", path |-> full_path]
    /\ UNCHANGED <<learner_vars, clock, config_vars, export_file, batch_vars,
                   mover_vars>>

\* ImageBrowser._edit_images(), outcomes what the viewing of each image
\* comes to.
EditImages(outcomes) ==
    /\ selected_images # <<>>
    /\ LET edited == EditLoop(selected_images, files, outcomes, 1, <<>>)
       IN  /\ selected_images' = edited.selected
           /\ files' = edited.files
    /\ last' = [op |-> "edit_images", outcomes |-> outcomes]
    /\ UNCHANGED <<learner_vars, clock, config_vars, export_file, batch_vars,
                   dirs, history_vars, dry_run>>

RecordAny ==
    \E c \in RecordColors, s \in RecordThemes, a \in RecordThemes :
        RecordCorrection(c, s, a)

RecordStored ==
    \E c \in StoredColors, s \in SuggestedThemes, a \in LearnThemes :
        RecordCorrection(c, s, a)

AdjustAny ==
    \E c \in QueryColors, s \in LearnThemes : AdjustDetection(c, s)

ImportDataAny == \E data \in ImportFiles, merge \in BOOLEAN : ImportData(data, merge)

ImportThemesAny ==
    \E data \in ThemeFiles, merge \in BOOLEAN : ImportThemes(data, merge)

\* The classifier alone.
NextDetect == \E c \in DetectColors : DetectTheme(c)

SpecDetect == Init /\ [][NextDetect]_vars

\* The distance alone.
NextDistance == \E c1 \in DistanceColors, c2 \in DistanceColors : RgbDistance(c1, c2)

SpecDistance == Init /\ [][NextDistance]_vars

\* Corrections recorded and looked up.
NextAdjust == RecordStored \/ AdjustAny

SpecAdjust == Init /\ [][NextAdjust]_vars

\* Corrections recorded next to what else fills the sequence and the store.
NextRecord ==
    \/ RecordAny
    \/ \E data \in SingleEntryFiles, merge \in BOOLEAN : ImportData(data, merge)
    \/ Clear
    \/ Load
    \/ Tick

SpecRecord == Init /\ [][NextRecord]_vars

\* The sequence recorded to, merged into, replaced, cleared and read again.
NextAppend ==
    \/ RecordAny
    \/ \E data \in SingleEntryFiles, merge \in BOOLEAN : ImportData(data, merge)
    \/ Clear
    \/ Load

SpecAppend == Init /\ [][NextAppend]_vars

\* A learner reading a store that was written, damaged or deleted.
NextLoad == RecordAny \/ Load \/ Clear \/ AdjustAny \/ Tick

SpecLoad == Init /\ [][NextLoad]_vars

\* Custom themes added and removed, and colours classified.
NextPalette ==
    \/ \E name \in CustomNames, rgb \in CustomColors : AddCustomTheme(name, rgb)
    \/ \E name \in CustomNames : RemoveCustomTheme(name)
    \/ GetAllThemes
    \/ \E c \in PaletteColors : DetectTheme(c)

SpecPalette == Init /\ [][NextPalette]_vars

\* A configuration changed, reset and constructed again.
NextConfig ==
    \/ \E name \in CustomNames, rgb \in CustomColors : AddCustomTheme(name, rgb)
    \/ \E name \in CustomNames : RemoveCustomTheme(name)
    \/ \E data \in CustomThemeFiles, merge \in BOOLEAN : ImportThemes(data, merge)
    \/ \E key \in {"custom_themes", "default_mode"}, value \in CustomDicts :
           Set(key, value)
    \/ ResetToDefaults
    \/ \E exists \in BOOLEAN : NewConfig(exists)

SpecConfig == Init /\ [][NextConfig]_vars

\* Images moved and copied by movers with and without dry_run.
NextDryRun ==
    \/ \E path \in SourcePaths, content \in Contents : SaveImage(path, content)
    \/ \E dry \in BOOLEAN : NewImageMover(dry)
    \/ \E path \in SourcePaths, theme \in MoveThemes : MoveImage(path, theme)
    \/ \E path \in SourcePaths, theme \in MoveThemes : CopyImage(path, theme)

SpecDryRun == Init /\ [][NextDryRun]_vars

\* Images moved and the last operation undone.
NextUndo ==
    \/ \E path \in SourcePaths, content \in Contents : SaveImage(path, content)
    \/ \E path \in SourcePaths, theme \in MoveThemes : MoveImage(path, theme)
    \/ \E path \in SourcePaths, theme \in MoveThemes : CopyImage(path, theme)
    \/ UndoLast

SpecUndo == Init /\ [][NextUndo]_vars

\* Histories of several sizes and the entries added to them.
NextHistory ==
    \/ \E max \in HistorySizes : NewHistory(max)
    \/ \E source \in SourcePaths, operation \in {"move", "copy"} :
           AddEntry(source, Path(target_dir("nord"), basename(source)), "nord",
                    operation)

SpecHistory == Init /\ [][NextHistory]_vars

\* Images moved and copied to where there are images already.
NextMove ==
    \/ \E path \in SourcePaths, content \in Contents : SaveImage(path, content)
    \/ \E path \in SourcePaths, theme \in MoveThemes : MoveImage(path, theme)
    \/ \E path \in SourcePaths, theme \in MoveThemes : CopyImage(path, theme)

SpecMove == Init /\ [][NextMove]_vars

\* The selection edited, the viewing of each image coming to any outcome.
EditSelected ==
    \E outcomes \in [1..Len(selected_images) -> EditOutcomes] : EditImages(outcomes)

\* Images selected in the browser and edited.
NextBrowser ==
    \/ \E path \in SourcePaths, content \in Contents : SaveImage(path, content)
    \/ \E path \in SourcePaths : HandleSelections(path)
    \/ EditSelected

SpecBrowser == Init /\ [][NextBrowser]_vars

\* Image files analysed.
NextAnalyze ==
    \E img \in ImageFiles, opens_first \in BOOLEAN, opens_second \in BOOLEAN :
        AnalyzeImage(img, opens_first, opens_second)

SpecAnalyze == Init /\ [][NextAnalyze]_vars

\* The dominant colour of image files taken.
NextDominant ==
    \E img \in DominantFiles, opens \in BOOLEAN : GetDominantColor(img, opens)

SpecDominant == Init /\ [][NextDominant]_vars

\* Batches of images processed.
NextBatch ==
    \/ \E batch \in Batches, processor_mode \in {"auto", "manual"} :
           ProcessImages(batch, processor_mode)
    \/ ProcessImage

SpecBatch == Init /\ [][NextBatch]_vars

\* A correction recorded for the colour and the suggestion of an image.
RecordForImage ==
    \E img \in BatchImages \ {Unreadable} :
        LET analysis == analyze_image(img, TRUE, TRUE)
        IN  RecordCorrection(analysis.avg_color, analysis.suggested_theme, "gruvbox")

\* Batches processed by a program whose learner holds corrections.
NextOrchestration ==
    \/ RecordForImage
    \/ \E batch \in Batches : ProcessImages(batch, "auto")
    \/ ProcessImage

SpecOrchestration == Init /\ [][NextOrchestration]_vars

\* Corrections recorded, exported and imported back.
NextRoundTrip == RecordAny \/ ExportData \/ ImportExported \/ Tick

SpecRoundTrip == Init /\ [][NextRoundTrip]_vars

\* The learner, its store and what else writes the store.
Next == RecordAny \/ ImportDataAny \/ ImportThemesAny \/ Clear \/ Load \/ Tick

Spec == Init /\ [][Next]_vars

-----------------------------------------------------------------------------
(* Detection                                                               *)

\* How confident a level is: the higher the more confident.
Rank(level) == CASE level = "high" -> 3 [] level = "medium" -> 2 [] level = "low" -> 1

\* The themes at the minimum distance from colour c.
Nearest(c) ==
    {i \in 1..Len(THEMES) :
        \A j \in 1..Len(THEMES) :
            rgb_distance(c, THEMES[i].color) <= rgb_distance(c, THEMES[j].color)}

\* C1: detect_theme(c) returns a theme of the palette and its distance to c,
\* no theme is nearer to c, and of the themes at that minimum distance the
\* first in the palette's iteration order is the one returned.
C1_DetectThemeMinimum ==
    last.op = "detect_theme" =>
        LET c == last.color
            r == last.result
        IN  /\ r.theme \in ThemeNames
            /\ r.distance = rgb_distance(c, get_theme_color(r.theme))
            /\ \A i \in 1..Len(THEMES) :
                    r.distance <= rgb_distance(c, THEMES[i].color)
            /\ \A i \in Nearest(c) : ThemeIndex(r.theme) <= i

\* A colour with two themes at the minimum distance has been classified.
C1_Witness ==
    /\ last.op = "detect_theme"
    /\ Cardinality(Nearest(last.color)) > 1
    /\ \A i \in Nearest(last.color) : ThemeIndex(last.result.theme) <= i

\* C2: the confidence is high exactly below distance 20, medium exactly from
\* 20 to below 35 and low exactly from 35 on, so of two classifications the
\* one with the smaller distance is never the less confident.
C2_ConfidenceThresholds ==
    last.op = "detect_theme" =>
        LET d == last.result.distance
            k == last.result.confidence
        IN  /\ (k = "high") <=> d < 2000 * 2000
            /\ (k = "medium") <=> (2000 * 2000 <= d /\ d < 3500 * 3500)
            /\ (k = "low") <=> d >= 3500 * 3500
            /\ \A c2 \in ThresholdColors \cup TieColors :
                    LET r2 == detect_theme(c2)
                    IN  /\ d < r2.distance => Rank(k) >= Rank(r2.confidence)
                        /\ r2.distance < d => Rank(r2.confidence) >= Rank(k)

\* The colour nearest above the threshold 20 has been classified as medium.
C2_Witness ==
    /\ last.op = "detect_theme"
    /\ last.color = <<7, 18, 209>>
    /\ last.result.distance = 4000034
    /\ last.result.confidence = "medium"


-----------------------------------------------------------------------------
(* Learned lookups                                                         *)

\* The weighted distance of the colour of correction i to colour c.
DistanceTo(c, i) == rgb_distance(c, corrections[i].avg_color.rgb)

\* The corrections within the similarity radius 20 of colour c.
Within(c) == {i \in 1..Len(corrections) : DistanceTo(c, i) < 2000 * 2000}

\* Those of them no other is nearer than.
NearestWithin(c) ==
    {i \in Within(c) : \A j \in Within(c) : DistanceTo(c, i) <= DistanceTo(c, j)}

\* What a correction makes of suggestion s: its actual theme if it was
\* recorded for s, and s otherwise.
Applied(i, s) ==
    IF corrections[i].suggested_theme = s THEN corrections[i].actual_theme ELSE s

\* C3: adjust_detection(c, s) returns the learned override when there is one
\* and s otherwise: the actual theme of the nearest correction within the
\* radius if that was recorded for s; s when the sequence is empty or
\* get_learned_theme is absent.
C3_AdjustReturnsOverrideOrSuggestion ==
    last.op = "adjust_detection" =>
        LET c == last.color
            s == last.suggested
        IN  /\ corrections = <<>> => last.result = s
            /\ last.learned = None => last.result = s
            /\ last.learned # None => last.result = last.learned
            /\ NearestWithin(c) = {} => last.result = s
            /\ NearestWithin(c) # {} =>
                   \E i \in NearestWithin(c) : last.result = Applied(i, s)

\* The nearest correction within the radius was recorded for the suggestion
\* and its actual theme has been returned in place of the suggestion.
C3_Witness ==
    /\ last.op = "adjust_detection"
    /\ \E i \in 1..Len(corrections) :
           /\ NearestWithin(last.color) = {i}
           /\ corrections[i].suggested_theme = last.suggested
           /\ last.result = corrections[i].actual_theme
           /\ last.result # last.suggested

\* C4: when the nearest correction within the radius was recorded for another
\* suggestion than s, get_learned_theme(c, s) is absent and adjust_detection
\* returns s, also when a farther correction within the radius was recorded
\* for s.
C4_LearningIsConservative ==
    last.op = "adjust_detection" =>
        LET c == last.color
            s == last.suggested
        IN  (/\ NearestWithin(c) # {}
             /\ \A i \in NearestWithin(c) : corrections[i].suggested_theme # s)
                => (last.learned = None /\ last.result = s)

\* The nearest correction was recorded for another suggestion, a farther one
\* within the radius for this suggestion, and the suggestion came back.
C4_Witness ==
    /\ last.op = "adjust_detection"
    /\ NearestWithin(last.color) # {}
    /\ \A i \in NearestWithin(last.color) :
           corrections[i].suggested_theme # last.suggested
    /\ \E j \in Within(last.color) \ NearestWithin(last.color) :
           /\ corrections[j].suggested_theme = last.suggested
           /\ corrections[j].actual_theme # last.suggested
    /\ last.learned = None
    /\ last.result = last.suggested

\* C5: only a correction at a distance below 20 from the query colour is
\* applied: a learned theme is the actual theme of a correction within the
\* radius recorded for s, corrections at 20 or more leave the lookup absent,
\* and a single correction within the radius recorded for s is applied.
C5_SimilarityRadius ==
    last.op = "adjust_detection" =>
        LET c == last.color
            s == last.suggested
        IN  /\ last.learned # None =>
                   \E i \in Within(c) :
                       /\ corrections[i].suggested_theme = s
                       /\ corrections[i].actual_theme = last.learned
            /\ (\A i \in 1..Len(corrections) : DistanceTo(c, i) >= 2000 * 2000)
                   => (last.learned = None /\ last.result = s)
            /\ (/\ Len(corrections) = 1
                /\ DistanceTo(c, 1) < 2000 * 2000
                /\ corrections[1].suggested_theme = s)
                   => last.learned = corrections[1].actual_theme

\* The only correction is recorded for the suggestion and lies just outside
\* the radius (A and D are 20.06 apart): it has not been applied.
C5_Witness ==
    /\ last.op = "adjust_detection"
    /\ Len(corrections) = 1
    /\ corrections[1].suggested_theme = last.suggested
    /\ DistanceTo(last.color, 1) >= 2000 * 2000
    /\ DistanceTo(last.color, 1) < 2100 * 2100
    /\ last.learned = None
    /\ last.result = last.suggested

\* C6: the correction within the radius that is strictly nearer than every
\* other one decides the lookup, in whatever order they were recorded.
C6_NearestDecides ==
    last.op = "adjust_detection" =>
        \A i \in 1..Len(corrections) :
            NearestWithin(last.color) = {i} =>
                last.learned =
                    IF corrections[i].suggested_theme = last.suggested
                    THEN corrections[i].actual_theme
                    ELSE None

\* Two corrections recorded for the suggestion, with different actual themes,
\* the nearer one recorded after the farther one: the nearer one decided.
C6_Witness ==
    /\ last.op = "adjust_detection"
    /\ Len(corrections) = 2
    /\ Within(last.color) = {1, 2}
    /\ DistanceTo(last.color, 2) < DistanceTo(last.color, 1)
    /\ corrections[1].suggested_theme = last.suggested
    /\ corrections[2].suggested_theme = last.suggested
    /\ corrections[1].actual_theme # corrections[2].actual_theme
    /\ last.learned = corrections[2].actual_theme

-----------------------------------------------------------------------------
(* Recording and importing corrections                                     *)

\* Two corrections with the same fields and values, the colour compared by
\* its channels.
SameCorrection(x, y) ==
    /\ DOMAIN x = DOMAIN y
    /\ \A f \in DOMAIN x :
           IF f = "avg_color" THEN x[f].rgb = y[f].rgb ELSE x[f] = y[f]

SameCorrections(xs, ys) ==
    /\ Len(xs) = Len(ys)
    /\ \A i \in 1..Len(xs) : SameCorrection(xs[i], ys[i])

\* C7: record_correction(c, theme, theme) changes neither the sequence nor
\* the store, and writes nothing.
C7_RecordSameThemeIsNoOp ==
    [][(last'.op = "record_correction" /\ last'.suggested = last'.actual)
           => /\ corrections' = corrections
              /\ learning_file' = learning_file
              /\ last'.saved = "no"]_vars

\* A confirmation has been passed to a learner that holds a correction and
\* has a store.
C7_Witness ==
    /\ last.op = "record_correction"
    /\ last.suggested = last.actual
    /\ Len(corrections) >= 1
    /\ learning_file # Missing
    /\ learning_file # Malformed

\* C8: record_correction(c, s, a) with s # a appends the one correction
\* {c, s, a, now} to the sequence and writes the store; when the write
\* succeeds, the store loads as the same corrections in the same order.
C8_RecordAppendsAndPersists ==
    [][(last'.op = "record_correction" /\ last'.suggested # last'.actual)
           => /\ corrections' =
                     Append(corrections,
                            Correction(PyTuple(last'.color), last'.suggested,
                                       last'.actual, clock))
              /\ last'.saved # "no"
              /\ last'.saved = "ok" =>
                     SameCorrections(load(learning_file'), corrections')]_vars

\* A second correction has been recorded, later than the first, and the
\* store written: it loads as the two of them.
C8_Witness ==
    /\ last.op = "record_correction"
    /\ last.suggested # last.actual
    /\ last.saved = "ok"
    /\ Len(corrections) = 2
    /\ WellFormed(corrections[1])
    /\ corrections[1].timestamp = 0
    /\ corrections[2] = Correction(PyTuple(last.color), last.suggested,
                                   last.actual, 1)
    /\ SameCorrections(load(learning_file), corrections)

\* C9: every correction in the sequence has a suggested theme other than its
\* actual theme.
C9_OnlyCorrectionsStored ==
    \A i \in 1..Len(corrections) :
        WellFormed(corrections[i]) =>
            corrections[i].suggested_theme # corrections[i].actual_theme

\* No two corrections of a sequence have the same key.
NoTwoWithSameKey(corrs) ==
    \A i, j \in 1..Len(corrs) :
        (i # j /\ WellFormed(corrs[i]) /\ WellFormed(corrs[j]))
            => Key(corrs[i]) # Key(corrs[j])

\* How many corrections of a sequence have key k.
CountKey(corrs, k) ==
    Cardinality({i \in 1..Len(corrs) : WellFormed(corrs[i]) /\ Key(corrs[i]) = k})

\* C10: a merge keeps every imported correction whose key is new, drops every
\* one whose key the sequence has, and leaves no two corrections with the
\* same key in a sequence that had none, whatever the imported file repeats.
C10_MergeDedups ==
    [][\A data \in ImportFiles :
           (ImportData(data, TRUE) /\ last'.ret) =>
               LET imported == data.corrections
               IN  /\ \A i \in 1..Len(imported) :
                          IF Key(imported[i]) \in ExistingKeys(corrections)
                          THEN CountKey(corrections', Key(imported[i]))
                                   = CountKey(corrections, Key(imported[i]))
                          ELSE \E j \in 1..Len(corrections') :
                                   corrections'[j] = imported[i]
                   /\ NoTwoWithSameKey(corrections)
                          => NoTwoWithSameKey(corrections')]_vars

\* C11: an import_data that reports failure (returns False) leaves the
\* in-memory sequence exactly as it was before the call, with merge as well
\* as without: a merge that fails part-way leaves no imported entry behind.
C11_FailedImportLeavesSequence ==
    [][(last'.op = "import_data" /\ ~last'.ret)
           => corrections' = corrections]_vars

\* C12: export_data(p) followed by import_data(p, merge=False) succeeds and
\* leaves a sequence of the same length with, at every position, the same
\* colour channels, suggested theme, actual theme and timestamp as before.
C12_ExportImportRoundTrip ==
    [][(/\ last.op = "export_data"
        /\ last.ret
        /\ ImportData(export_file, FALSE))
           => /\ last'.ret
              /\ SameCorrections(corrections', corrections)]_vars

\* Two corrections recorded at different instants and for different
\* suggestions have been exported and imported back.
C12_Witness ==
    /\ last.op = "import_data"
    /\ ~last.merge
    /\ last.ret
    /\ Len(corrections) = 2
    /\ corrections[1].timestamp # corrections[2].timestamp
    /\ corrections[1].suggested_theme # corrections[2].suggested_theme
    /\ export_file # Missing
    /\ export_file # Malformed
    /\ export_file.corrections = corrections

\* The store cannot be read: there is no file, or its content is malformed.
CannotBeRead(file) == file = Missing \/ file = Malformed

C14_WriteFailureKeepsMemory ==
    [][(/\ last'.op = "record_correction"
        /\ last'.suggested # last'.actual
        /\ last'.saved \in {"denied", "partial"})
           => /\ corrections' =
                     Append(corrections,
                            Correction(PyTuple(last'.color), last'.suggested,
                                       last'.actual, clock))
              /\ learning_file' \in {learning_file, Malformed}
              /\ Within(last'.color) = {} =>
                     adjust_detection(corrections', last'.color, last'.suggested)
                         = last'.actual]_vars

\* The write was refused, the store does not exist, and the lookup asked next
\* has returned the theme of the correction held in memory only.
C14_Witness ==
    /\ last.op = "adjust_detection"
    /\ learning_file = Missing
    /\ Len(corrections) = 1
    /\ last.color = corrections[1].avg_color.rgb
    /\ last.suggested = corrections[1].suggested_theme
    /\ last.result = corrections[1].actual_theme
    /\ last.result # last.suggested

-----------------------------------------------------------------------------
(* The palette                                                              *)

\* C15: detect_theme takes the minimum over the merged palette (the built-in
\* themes updated with the custom themes of the configuration): a colour k
\* that a custom theme n has, and no other theme of the merged palette, is
\* classified as n at distance 0.
C15_DetectUsesMergedPalette ==
    last.op = "detect_theme" =>
        LET c == last.color
            palette == get_all_themes
        IN  /\ last.result.theme \in DOMAIN palette
            /\ \A n \in DOMAIN palette :
                   last.result.distance <= rgb_distance(c, palette[n])
            /\ \A n \in DOMAIN CustomThemes :
                   (/\ CustomThemes[n] = c
                    /\ \A m \in DOMAIN palette \ {n} : palette[m] # c)
                       => (last.result.theme = n /\ last.result.distance = 0)

-----------------------------------------------------------------------------
(* Orchestration                                                            *)

\* C16: in auto mode the theme presented for confirmation for an analysed
\* image is adjust_detection(colour, suggested theme) of the learner, not
\* the suggestion of the classifier as it is.
C16_PresentsAdjustedTheme ==
    (last.op = "process_image" /\ mode = "auto" /\ last.analysis # NoAnalysis)
        => last.presented =
               adjust_detection(corrections, last.analysis.avg_color,
                                last.analysis.suggested_theme)

\* C17: in auto mode, when the user rejects the theme s suggested for an
\* image of colour c and picks another theme t, the correction (c, s, t) is
\* recorded: the sequence grows by that one correction.
C17_OverrideIsRecorded ==
    [][(/\ last'.op = "process_image"
        /\ mode = "auto"
        /\ last'.analysis # NoAnalysis
        /\ last'.manual
        /\ last'.theme # None
        /\ last'.theme # last'.analysis.suggested_theme)
           => /\ Len(corrections') = Len(corrections) + 1
              /\ SameCorrection(corrections'[Len(corrections')],
                                Correction(PyTuple(last'.analysis.avg_color),
                                           last'.analysis.suggested_theme,
                                           last'.theme, clock))]_vars

\* C18: the correction sequence and its store file change only in
\* record_correction, import_data, clear and load of the learner.
C18_OnlyLearnerWritesCorrections ==
    [][(corrections' # corrections \/ learning_file' # learning_file)
           => last'.op \in {"record_correction", "import_data", "clear", "load"}]_vars

\* C20: every pass of the loop takes the next image of the batch in the
\* order given, whatever was decided for the images before it, and moves on
\* by one image whether this one is moved, fails or is skipped; in auto mode
\* an image that cannot be analysed is given to the manual selection.
C20_BatchGoesOn ==
    [][last'.op = "process_image"
           => /\ images' = images
              /\ idx' = idx + 1
              /\ idx' <= Len(images)
              /\ output' = Append(output, output'[idx'])
              /\ output'[idx'].image = images[idx']
              /\ output'[idx'].outcome \in {"success", "failed", "skipped"}
              /\ results'.success + results'.failed + results'.skipped = idx'
              /\ results'[output'[idx'].outcome] = results[output'[idx'].outcome] + 1
              /\ (mode = "auto" /\ last'.analysis = NoAnalysis) => last'.manual]_vars

\* A batch of two images in auto mode is done: the first could not be
\* analysed, was given to the manual selection and skipped, and the second
\* was analysed and moved.
C20_Witness ==
    /\ last.op = "process_image"
    /\ mode = "auto"
    /\ Len(images) = 2
    /\ idx = 2
    /\ output[1].image = Unreadable
    /\ output[1].outcome = "skipped"
    /\ output[2].image # Unreadable
    /\ output[2].outcome = "success"
    /\ results = [success |-> 1, failed |-> 0, skipped |-> 1]

-----------------------------------------------------------------------------
(* Analysis of an image                                                     *)

\* An image file has pixels to take a colour from.
HasPixels(img) == img # Unreadable /\ img.pixels # <<>>

\* A colour is among the most frequent of the quantized pixels of an image.
IsDominant(img, color) ==
    LET bin(i) == <<(img.pixels[i][1] \div 16) * 16,
                    (img.pixels[i][2] \div 16) * 16,
                    (img.pixels[i][3] \div 16) * 16>>
        count(c) == Cardinality({i \in 1..Len(img.pixels) : bin(i) = c})
    IN  /\ \E i \in 1..Len(img.pixels) : bin(i) = color
        /\ \A i \in 1..Len(img.pixels) : count(bin(i)) <= count(color)

\* A colour is the average of the pixels of an image, each channel rounded
\* down to a whole number.
IsAverage(img, color) ==
    LET n == Len(img.pixels)
    IN  \A k \in 1..3 :
            /\ n * color[k] <= SumChannel(img.pixels, k, 1)
            /\ SumChannel(img.pixels, k, 1) < n * (color[k] + 1)

\* C19: analyze_image returns a value for every file; the value is absent
\* exactly when neither the dominant colour nor the average colour could be
\* taken; otherwise its colour is the dominant colour when that could be
\* taken (black included) and the average colour when only that could, and
\* its theme, distance and confidence are those of detect_theme of the colour.
C19_AnalyzeAbsentIffNoColor ==
    last.op = "analyze_image" =>
        LET img == last.image
            first == last.opens_first /\ HasPixels(img)
            second == last.opens_second /\ HasPixels(img)
            r == last.result
        IN  /\ (r = NoAnalysis) <=> (~first /\ ~second)
            /\ first => IsDominant(img, r.avg_color)
            /\ (~first /\ second) => IsAverage(img, r.avg_color)
            /\ r # NoAnalysis =>
                   /\ r.suggested_theme \in ThemeNames
                   /\ r.distance =
                          rgb_distance(r.avg_color, get_theme_color(r.suggested_theme))
                   /\ \A i \in 1..Len(THEMES) :
                          r.distance <= rgb_distance(r.avg_color, THEMES[i].color)
                   /\ (r.confidence = "high") <=> r.distance < 2000 * 2000
                   /\ (r.confidence = "low") <=> r.distance >= 3500 * 3500

\* An image whose most frequent quantized colour is black has been analysed:
\* the result is black, although the average is not.
C19_Witness ==
    /\ last.op = "analyze_image"
    /\ last.opens_first
    /\ last.result # NoAnalysis
    /\ last.result.avg_color = <<0, 0, 0>>
    /\ get_avg_color(last.image, TRUE) # <<0, 0, 0>>

-----------------------------------------------------------------------------
(* The distance                                                             *)

\* C21: the distance is symmetric, rgb_distance(A, B) = rgb_distance(B, A) for
\* all colours A and B with channels in 0..255, and the distance of a colour
\* to itself is 0.
C21_DistanceSymmetric ==
    last.op = "rgb_distance" =>
        /\ \A k \in 1..3 : last.c1[k] \in 0..255 /\ last.c2[k] \in 0..255
        /\ last.result = rgb_distance(last.c2, last.c1)
        /\ (last.c1 = last.c2 => last.result = 0)

C21_Witness ==
    /\ last.op = "rgb_distance"
    /\ last.c1[3] # last.c2[3]
    /\ last.c1[1] = 255 /\ last.c2[1] = 0
    /\ last.result > 0

-----------------------------------------------------------------------------
(* Corrections at the same distance                                        *)

\* C30: of the corrections within the radius that are at the same, smallest,
\* distance from the query colour, the one recorded first decides: after
\* (c, s, t1) and then (c, s, t2) were recorded, adjust_detection(c, s)
\* returns t1.
C30_EarliestOfEquidistantDecides ==
    last.op = "adjust_detection" =>
        \A i \in NearestWithin(last.color) :
            (\A j \in NearestWithin(last.color) : i <= j) =>
                /\ last.result = Applied(i, last.suggested)
                /\ last.learned =
                       IF corrections[i].suggested_theme = last.suggested
                       THEN corrections[i].actual_theme
                       ELSE None

\* Two corrections recorded for the same colour and suggestion with different
\* actual themes, and the lookup for that colour and suggestion.
C30_Witness ==
    /\ last.op = "adjust_detection"
    /\ Len(corrections) = 2
    /\ corrections[1].avg_color.rgb = last.color
    /\ corrections[2].avg_color.rgb = last.color
    /\ corrections[1].suggested_theme = last.suggested
    /\ corrections[2].suggested_theme = last.suggested
    /\ corrections[1].actual_theme # corrections[2].actual_theme
    /\ last.result = corrections[1].actual_theme

-----------------------------------------------------------------------------
(* The sequence only grows                                                 *)

\* One sequence begins with the other, element for element.
IsPrefix(s, t) == Len(s) <= Len(t) /\ \A i \in 1..Len(s) : t[i] = s[i]

-----------------------------------------------------------------------------
(* The default configuration                                               *)

\* C28: no operation of a Config changes DEFAULT_CONFIG; after
\* reset_to_defaults the configuration has no custom themes, whatever
\* add_custom_theme, remove_custom_theme, import_themes and set did before;
\* and a Config constructed where there is no config file has no custom
\* themes.
C28_ResetRestoresDefaults ==
    /\ default_custom_themes = EmptyDict
    /\ last.op = "reset_to_defaults" => CustomThemes = EmptyDict
    /\ (last.op = "new_config" /\ config_file = Missing) => CustomThemes = EmptyDict

-----------------------------------------------------------------------------
(* Moving, copying and undoing                                             *)

\* C24: move_image and copy_image of a mover with dry_run leave the files,
\* the directories and the history as they are: no file is moved or copied,
\* no directory is made and no history entry is added.
C24_DryRunChangesNothing ==
    [][ (dry_run /\ last'.op \in {"move_image", "copy_image"})
        => /\ files' = files
           /\ dirs' = dirs
           /\ entries' = entries
           /\ history_file' = history_file ]_vars

\* C25: undo_last() right after a move_image(p, theme) that succeeded without
\* dry_run, for p an absolute path or a bare file name, succeeds: the file is
\* at p again and no longer at its destination, and the entry of the move is
\* gone from the history.
C25_UndoRestoresMove ==
    [][ (/\ last.op = "move_image" /\ last.ret /\ ~last.dry_run
         /\ last'.op = "undo_last")
        => /\ last'.ret
           /\ path_exists(files', last.source)
           /\ files'[last.source] = files[last.destination]
           /\ ~path_exists(files', last.destination)
           /\ entries' = SubSeq(entries, 1, Len(entries) - 1) ]_vars

\* C26: after an add_entry whose save succeeds the history holds at most
\* max_entries entries, for every max_entries >= 0: the entry added and the
\* most recent of the entries before it, in their order.
C26_HistoryIsBounded ==
    [][ (last'.op = "add_entry" /\ last'.ret)
        => LET n == Len(entries')
               kept == IF Len(entries) + 1 < max_entries
                       THEN Len(entries) + 1 ELSE max_entries
           IN  /\ n <= max_entries
               /\ n = kept
               /\ \A i \in 1..(n - 1) :
                      entries'[i] = entries[Len(entries) + 1 - n + i]
               /\ n >= 1 => /\ entries'[n].source = last'.source
                            /\ entries'[n].destination = last'.destination ]_vars

\* C27: a move_image or copy_image that succeeds without dry_run overwrites
\* nothing: the destination was free, it is the name of the image or, that
\* being taken, the first free of name_1, name_2, ... in the directory of the
\* theme; every file there was is where and what it was (but for the image
\* moved), and the history records the destination used.
C27_NeverOverwrites ==
    [][ (last'.op \in {"move_image", "copy_image"} /\ last'.ret /\ ~dry_run)
        => LET src == last'.source
               dst == last'.destination
               base == src.name
               taken(name) == Path(dst.dir, name) \in DOMAIN files
               gone == IF last'.op = "move_image" THEN {src} ELSE {}
           IN  /\ dst.dir = target_dir(last'.theme)
               /\ ~taken(dst.name)
               /\ \/ dst.name = base
                  \/ LET k == dst.name[Len(dst.name)]
                     IN  /\ dst.name = Append(base, k)
                         /\ k >= 1
                         /\ taken(base)
                         /\ \A j \in 1..(k - 1) : taken(Append(base, j))
               /\ DOMAIN files' = (DOMAIN files \ gone) \cup {dst}
               /\ \A p \in DOMAIN files \ gone : files'[p] = files[p]
               /\ files'[dst] = files[src]
               /\ entries' # <<>>
               /\ entries'[Len(entries')].source = src
               /\ entries'[Len(entries')].destination = dst ]_vars

\* An image moved to where its name and its name with counter 1 were taken.
C27_Witness ==
    /\ last.op = "move_image" /\ last.ret
    /\ last.destination = Path(target_dir("nord"), <<"a", 2>>)
    /\ path_exists(files, Path(target_dir("nord"), <<"a">>))
    /\ path_exists(files, Path(target_dir("nord"), <<"a", 1>>))
    /\ path_exists(files, last.destination)

-----------------------------------------------------------------------------
(* The selection of the browser                                            *)

\* C29: _edit_images loses no selected image: the selection it leaves is as
\* long as the one it found, and holds each image under its path or under
\* the path it was renamed to, also when the editing is cancelled with
\* Ctrl+C at some image (that image and those after it are kept).
C29_EditKeepsSelection ==
    [][ last'.op = "edit_images"
        => /\ Len(selected_images') = Len(selected_images)
           /\ \A i \in 1..Len(selected_images) :
                  \/ selected_images'[i] = selected_images[i]
                  \/ selected_images'[i] =
                         Path(dirname(selected_images[i]), RENAMED) ]_vars

=============================================================================
